---- MODULE Spec2Model ----
(***************************************************************************)
(* Model of the MT5 trading bot: the control loop TradingBot.run           *)
(* (src/bot/main.py) with the RiskManager (src/bot/risk_manager.py), the   *)
(* venue gateway MT5Connector (src/bot/mt5_connector.py), the trade ledger *)
(* DatabaseManager (src/bot/database.py) and the signal source             *)
(* TradingAgent (src/bot/ml_agent.py) as far as the loop uses them.        *)
(*                                                                         *)
(* Units.  Money is an integer number of account-currency units.  Prices   *)
(* are integers in pips (1.0000 = 10000).  Fractions of the risk           *)
(* configuration are percentages (0.02 = 2, 0.05 = 5, 0.8 = 80).  A volume *)
(* is an integer number of 1/10000 lots (0.01 lot = 100).                  *)
(***************************************************************************)
EXTENDS Integers, Sequences, FiniteSets, TLC

\* ------------------------------------------------------------------------
\* Bounds of the model
\* ------------------------------------------------------------------------

\* tickets the venue can issue (orders of the bot and positions opened by
\* the account owner outside the bot)
MaxTicket == 3

\* calendar days the clock can show
MaxDay == 2

\* self.max_trades_per_day (main.py:62 sets 50); scaled down so that the
\* throttle is reached within MaxTicket orders
max_trades_per_day == 2

\* RiskManager.daily_losses, which the code lets grow without bound and never
\* reads, is counted up to this value in the loop
MaxLosses == 1200

\* and up to this value when the methods of the RiskManager are called
\* directly
MaxCallLosses == 600

\* ------------------------------------------------------------------------
\* Program constants
\* ------------------------------------------------------------------------

\* RiskManager.__init__ defaults
max_risk_per_trade_pct == 2
max_daily_loss_pct == 5
max_positions == 3
max_leverage == 10

\* check_risk_limits: margin level floor (percent), default of a missing
\* margin_level key, equity floor (percent of balance)
margin_level_floor == 200
margin_level_default == 1000
equity_floor_pct == 80

\* should_close_position: the profit at which the peak tracking starts
\* (percent) and the share of the peak at which the trailing stop fires
\* (percent)
profit_threshold_pct == 2
trailing_share_pct == 50

\* the stop distance of the BUY and SELL signals of the signal source
signal_stop_loss_pips == 20

\* the waits of TradingBot.run, in seconds
SLEEP_MARKET_CLOSED == 300
SLEEP_THROTTLE == 3600
SLEEP_RETRY == 60
SLEEP_RISK == 300
SLEEP_ITERATION == 60
SLEEP_ERROR == 60

\* Python's None for a number
NoneVal == 0 - 1

\* ------------------------------------------------------------------------
\* Values
\* ------------------------------------------------------------------------

Tickets == 1..MaxTicket

\* tick prices of the symbol, in pips; the venue fills orders while the
\* price is at EntryPrice, so every open position has this entry price
EntryPrice == 10000
Prices == {EntryPrice, 10300}

\* Python's None for an account snapshot
NoAccount ==
    [balance |-> NoneVal, equity |-> NoneVal, margin |-> NoneVal,
     margin_level |-> NoneVal, open_positions |-> NoneVal]

\* the dict get_account_info builds from the terminal's account: it has no
\* 'open_positions' key, and margin_level is forced to 0 when margin is 0
AccountDict(balance, equity, margin, margin_level) ==
    [balance |-> balance, equity |-> equity, margin |-> margin,
     margin_level |-> IF margin > 0 THEN margin_level ELSE 0,
     open_positions |-> NoneVal]

\* the terminal's account states: without used margin (no open position)
\* and with used margin
FlatAccounts ==
    { [balance |-> 10000, equity |-> 10000, margin |-> 0, margin_level |-> 0] }

MarginAccounts ==
    { [balance |-> 10000, equity |-> 10000, margin |-> 1000, margin_level |-> 1000],
      [balance |-> 9400, equity |-> 9400, margin |-> 1000, margin_level |-> 940] }

\* no position under a ticket
NoPos == [type |-> "NONE", price_open |-> 0]

Max(a, b) == IF a >= b THEN a ELSE b

\* an entry of the call log of the current iteration; stop_loss is the
\* stop_loss argument of a place_order call
Ev(op, acct, n, ok, s) ==
    [op |-> op, acct |-> acct, n |-> n, ok |-> ok, s |-> s, stop_loss |-> NoneVal]

\* ------------------------------------------------------------------------
\* RiskManager
\* ------------------------------------------------------------------------

\* if self.daily_start_balance is None: self.daily_start_balance = balance
SeededStart_Always(daily_start_balance, balance) == balance

SeededStart(daily_start_balance, balance) ==
    IF daily_start_balance = NoneVal THEN balance ELSE daily_start_balance

\* self.daily_losses += max(0.0, self.daily_start_balance - current_balance)
DailyLossesAfterBreach_Kept(losses, start, current_balance) == losses

DailyLossesAfterBreach(losses, start, current_balance) ==
    losses + Max(0, start - current_balance)

\* account_info['equity'] < account_info['balance'] * 0.8
EquityTooLow_Never(account_info) == FALSE

EquityTooLow(account_info) ==
    account_info.equity * 100 < account_info.balance * equity_floor_pct

\* check_risk_limits(account_info) on a RiskManager whose fields are
\* daily_start_balance and daily_losses: the result and the fields after.
\* A snapshot without 'balance' or 'equity' (NoneVal) raises KeyError where
\* the key is read, and the except branch returns False
CheckRiskLimits(account_info, daily_start_balance, daily_losses) ==
    LET start == SeededStart(daily_start_balance, account_info.balance)
        current_balance == account_info.balance
        margin_level == IF account_info.margin_level = NoneVal
                        THEN margin_level_default ELSE account_info.margin_level
        res(ok, losses) == [ok |-> ok, daily_start_balance |-> start,
                            daily_losses |-> losses]
    IN  IF account_info.balance = NoneVal
        THEN [ok |-> FALSE, daily_start_balance |-> daily_start_balance,
              daily_losses |-> daily_losses]
        ELSE IF account_info.open_positions # NoneVal
                /\ account_info.open_positions >= max_positions
        THEN res(FALSE, daily_losses)
        ELSE IF start <= 0
        THEN res(FALSE, daily_losses)
        ELSE IF (start - current_balance) * 100 >= max_daily_loss_pct * start
        THEN res(FALSE, DailyLossesAfterBreach(daily_losses, start, current_balance))
        ELSE IF margin_level < margin_level_floor
        THEN res(FALSE, daily_losses)
        ELSE IF account_info.equity = NoneVal
        THEN res(FALSE, daily_losses)
        ELSE IF EquityTooLow(account_info)
        THEN res(FALSE, daily_losses)
        ELSE res(TRUE, daily_losses)

\* the hundredths round(x, 2) can return for x = num/den hundredths (den > 0):
\* the nearest one; when x lies exactly halfway between two hundredths the
\* double that represents the quotient decides, and either can come out
\* (0.0625 gives 0.06, but 0.025 gives 0.03)
Round2_Truncate(num, den) == {num \div den}

Round2(num, den) ==
    LET q == num \div den
        r == num % den
    IN  IF 2 * r < den THEN {q}
        ELSE IF 2 * r > den THEN {q + 1}
        ELSE {q, q + 1}

\* position_size after "if position_size < 0.01: position_size = 0.01"
SizeFloor(size) == IF size < 100 THEN 100 ELSE size

\* what the except branch of calculate_position_size returns
SizeOnError == 100

\* calculate_position_size taking a stop distance <= 0 for one pip
PositionSizes_StopClamped(account_balance, stop_loss_pips, risk_pct, leverage) ==
    LET stop == IF stop_loss_pips <= 0 THEN 1 ELSE stop_loss_pips
        max_position == (account_balance * leverage) \div 10
    IN  { IF SizeFloor(100 * h) > max_position
          THEN max_position ELSE SizeFloor(100 * h) :
          h \in Round2(account_balance * risk_pct, stop * 10) }

\* the values calculate_position_size(account_balance, stop_loss_pips) can
\* return on a RiskManager with the given max_risk_per_trade (percent) and
\* max_leverage, with the default pip_value 0.0001, in 1/10000 lots:
\*   risk_amount / (stop_loss_pips * pip_value_per_lot) lots
\*     = balance * max_risk_per_trade / (stop_loss_pips * 10) hundredths
\*   max_position = balance / 100000 * max_leverage lots
\*     = balance * max_leverage / 10 in 1/10000 lots
PositionSizes(account_balance, stop_loss_pips, risk_pct, leverage) ==
    IF stop_loss_pips <= 0
    THEN {SizeOnError}
    ELSE LET max_position == (account_balance * leverage) \div 10
         IN  { IF SizeFloor(100 * h) > max_position
               THEN max_position ELSE SizeFloor(100 * h) :
               h \in Round2(account_balance * risk_pct, stop_loss_pips * 10) }

\* calculate_position_size on the RiskManager() of TradingBot.__init__
CalculatePositionSize(account_balance, stop_loss_pips) ==
    PositionSizes(account_balance, stop_loss_pips, max_risk_per_trade_pct,
                  max_leverage)

\* should_close_position, hard stop: the signed PnL% of the position at
\* current_price is at or below -max_risk_per_trade
HardStopHit(position, current_price) ==
    LET diff == IF position.type = "BUY"
                THEN current_price - position.price_open
                ELSE position.price_open - current_price
    IN  diff * 100 <= (0 - max_risk_per_trade_pct) * position.price_open

\* PnL% values are integers in units of 1/PnlDen; PnlDen is a multiple of
\* every entry price of the model, so the quotients are exact
PnlDen == 110000

\* pnl_pct of should_close_position, in 1/PnlDen
PnlPct(position, current_price) ==
    LET diff == IF position.type = "BUY"
                THEN current_price - position.price_open
                ELSE position.price_open - current_price
    IN  (diff * PnlDen) \div position.price_open

\* max(0.0, volume * (price_open - current_price)), with the volume of a
\* position dict in whole lots and prices in pips
LossAmount_Unfloored(position, current_price) ==
    (position.volume * (position.price_open - current_price)) \div 10000

LossAmount(position, current_price) ==
    Max(0, (position.volume * (position.price_open - current_price)) \div 10000)

\* new_peak = max(prev_peak, pnl_pct)
NewPeak_Latest(prev_peak, pnl_pct) == pnl_pct

NewPeak(prev_peak, pnl_pct) == Max(prev_peak, pnl_pct)

\* position_peaks after the trailing stop of a ticket fired
PeaksAfterTrigger_Kept(peaks, ticket) == peaks

PeaksAfterTrigger(peaks, ticket) == [peaks EXCEPT ![ticket] = NoneVal]

\* if pnl_pct > profit_threshold
AboveThreshold_Positive(pnl_pct) == pnl_pct > 0

AboveThreshold(pnl_pct) == pnl_pct * 100 > profit_threshold_pct * PnlDen

\* if peak > 0 and pnl_pct <= peak * 0.5
TrailingHit_AtPeak(peak, pnl_pct) == peak > 0 /\ pnl_pct <= peak

TrailingHit(peak, pnl_pct) ==
    peak > 0 /\ pnl_pct * 100 <= peak * trailing_share_pct

\* should_close_position(position, current_price) on a RiskManager whose
\* fields are peaks and losses: the result and the fields after.  A position
\* with price_open 0 raises ZeroDivisionError and the except branch returns
\* False; a position without 'ticket' has ticket NoneVal
ShouldClosePosition(position, current_price, peaks, losses) ==
    IF position.price_open = 0
    THEN [ok |-> FALSE, position_peaks |-> peaks, daily_losses |-> losses]
    ELSE IF HardStopHit(position, current_price)
    THEN [ok |-> TRUE, position_peaks |-> peaks,
          daily_losses |-> losses + LossAmount(position, current_price)]
    ELSE LET pnl_pct == PnlPct(position, current_price)
             ticket == position.ticket
             prev_peak == IF peaks[ticket] = NoneVal THEN 0 ELSE peaks[ticket]
             updated == IF AboveThreshold(pnl_pct) /\ ticket # NoneVal
                        THEN [peaks EXCEPT ![ticket] = NewPeak(prev_peak, pnl_pct)]
                        ELSE peaks
         IN  IF /\ ticket # NoneVal
                /\ updated[ticket] # NoneVal
                /\ TrailingHit(updated[ticket], pnl_pct)
             THEN [ok |-> TRUE, position_peaks |-> PeaksAfterTrigger(updated, ticket),
                   daily_losses |-> losses]
             ELSE [ok |-> FALSE, position_peaks |-> updated, daily_losses |-> losses]

\* ------------------------------------------------------------------------
\* DatabaseManager
\* ------------------------------------------------------------------------

\* the row log_trade inserts for a trade dict; of the columns of table
\* trades the model keeps order_id, open_price, status, close_price, profit
\* and close_time
TradeRow(trade) ==
    [order_id |-> trade.order_id, open_price |-> trade.price, status |-> "OPEN",
     close_price |-> NoneVal, profit |-> NoneVal, close_time |-> NoneVal]

\* INSERT INTO trades ... ON CONFLICT (order_id) DO NOTHING, committed
InsertTrade_NoConflictCheck(rows, trade) == rows \cup {TradeRow(trade)}

InsertTrade_Upsert(rows, trade) ==
    {r \in rows : r.order_id # trade.order_id} \cup {TradeRow(trade)}

InsertTrade(rows, trade) ==
    IF \E r \in rows : r.order_id = trade.order_id
    THEN rows
    ELSE rows \cup {TradeRow(trade)}

\* UPDATE trades SET close_price, profit, close_time, status = 'CLOSED'
\* WHERE order_id = ..., committed
UpdateTrade_EveryRow(rows, order_id, close_price, profit, close_time) ==
    { [r EXCEPT !.close_price = close_price, !.profit = profit,
                !.close_time = close_time, !.status = "CLOSED"] : r \in rows }

UpdateTrade(rows, order_id, close_price, profit, close_time) ==
    { IF r.order_id = order_id
      THEN [r EXCEPT !.close_price = close_price, !.profit = profit,
                     !.close_time = close_time, !.status = "CLOSED"]
      ELSE r : r \in rows }

\* ------------------------------------------------------------------------
\* State
\* ------------------------------------------------------------------------

VARIABLES
    \* the venue (MetaTrader terminal) and the clock
    positions,            \* ticket -> open position, NoPos when none
    nextTicket,           \* next ticket the venue issues
    price,                \* current tick price
    account,              \* the terminal's account
    today,                \* datetime.now().date()
    mt5_connected,        \* MT5Connector.connected
    \* the store
    db_connected,         \* DatabaseManager.conn is open
    ledger,               \* the rows of table trades
    \* TradingBot
    pc,                   \* position of the control flow of main()/run()
    is_running,
    trades_today,
    current_trading_day,
    daily_start_equity,
    account_info,         \* run's local: this iteration's snapshot
    signal,               \* run's local: the action of this iteration's signal
    trade_result,         \* run's local: what execute_trade returned
    \* RiskManager
    daily_start_balance,
    daily_losses,
    position_peaks,       \* ticket -> peak PnL%, NoneVal when the ticket has no entry
    \* observation
    log,                  \* the collaborator calls of the current iteration
    interrupted,          \* a KeyboardInterrupt has been delivered
    call                  \* the latest direct call of a method

vars == <<positions, nextTicket, price, account, today, mt5_connected,
          db_connected, ledger, pc, is_running, trades_today,
          current_trading_day, daily_start_equity, account_info, signal,
          trade_result, daily_start_balance, daily_losses, log, interrupted,
          position_peaks, call>>

unitVars == <<position_peaks, call>>
venueVars == <<positions, nextTicket, price, account>>
riskVars == <<daily_start_balance, daily_losses>>
dayVars == <<trades_today, current_trading_day, daily_start_equity>>
localVars == <<account_info, signal, trade_result>>
connVars == <<mt5_connected, db_connected>>

OpenTickets == {t \in Tickets : positions[t] # NoPos}

\* execute_trade returned None
NoResult == [success |-> FALSE, order_id |-> NoneVal, volume |-> 0,
             price |-> 0, type |-> "None"]

\* place_order's {'success': False, 'error': ...}
FailedResult == [success |-> FALSE, order_id |-> NoneVal, volume |-> 0,
                 price |-> 0, type |-> "ERROR"]

\* statements of run covered by its try block
TryPcs == {"market_check", "throttle_check", "fetch_market", "fetch_account",
           "day_rollover", "risk_gate", "decide", "act", "close_all",
           "execute_trade", "post_trade", "report", "wait"}

\* statements of run's generic exception handler
HandlerPcs == {"except", "except_wait"}

\* where the loop is when the venue and the clock move: at the end of a
\* wait, before the next iteration reads them
EnvPcs == {"market_check"}

\* where the loop is when the account moves: also between the snapshot and
\* the order
AccountPcs == EnvPcs \cup {"execute_trade"}

Append1(e) == log' = Append(log, e)

\* the variables of TradingBot.run, its venue and its store
loopVars == <<venueVars, today, connVars, ledger, pc, is_running, dayVars,
              localVars, log, interrupted>>

\* no position dict
NoPosition == [ticket |-> NoneVal, type |-> "NONE", price_open |-> 0, volume |-> 0]

\* no arguments of update_trade
NoClose == [order_id |-> NoneVal, close_price |-> NoneVal, profit |-> NoneVal,
            close_time |-> NoneVal]

\* the order ids in table trades
LedgerIds == {r.order_id : r \in ledger}

\* no method has been called directly
NoCall ==
    [fn |-> "none", account_balance |-> 0, stop_loss_pips |-> 0,
     max_risk_per_trade |-> 0, max_leverage |-> 0, size |-> 0,
     acct |-> NoAccount, position |-> NoPosition, current_price |-> 0,
     trade |-> NoResult, close |-> NoClose, ok |-> FALSE, outcome |-> "none"]

Init ==
    /\ positions = [t \in Tickets |-> NoPos]
    /\ nextTicket = 1
    /\ price = EntryPrice
    /\ account \in FlatAccounts
    /\ today = 1
    /\ mt5_connected = FALSE
    /\ db_connected = FALSE
    /\ ledger = {}
    /\ pc = "start"
    /\ is_running = FALSE
    /\ trades_today = 0
    /\ current_trading_day = 1
    /\ daily_start_equity = NoneVal
    /\ account_info = NoAccount
    /\ signal = "NONE"
    /\ trade_result = NoResult
    /\ daily_start_balance = NoneVal
    /\ daily_losses = 0
    /\ log = <<>>
    /\ interrupted = FALSE
    /\ position_peaks = [t \in Tickets |-> NoneVal]
    /\ call = NoCall

\* ------------------------------------------------------------------------
\* The environment: venue, account owner, clock
\* ------------------------------------------------------------------------

\* the price moves
Tick ==
    /\ pc \in EnvPcs
    /\ \E p \in Prices \ {price} : price' = p
    /\ UNCHANGED <<positions, nextTicket, account, today, connVars, ledger, pc,
                   is_running, dayVars, localVars, riskVars, log, interrupted, unitVars>>

\* balance, equity or margin change
AccountChange ==
    /\ pc \in AccountPcs
    /\ \E a \in (IF OpenTickets = {} THEN FlatAccounts ELSE MarginAccounts) \ {account} :
           account' = a
    /\ UNCHANGED <<positions, nextTicket, price, today, connVars, ledger, pc,
                   is_running, dayVars, localVars, riskVars, log, interrupted, unitVars>>

\* the account owner opens a position outside the bot
ExternalOpen ==
    /\ pc \in EnvPcs
    /\ nextTicket <= MaxTicket
    /\ price = EntryPrice
    /\ \E ty \in {"BUY", "SELL"} :
           positions' = [positions EXCEPT ![nextTicket] =
                            [type |-> ty, price_open |-> price]]
    /\ nextTicket' = nextTicket + 1
    /\ IF OpenTickets = {}
       THEN account' \in MarginAccounts
       ELSE account' = account
    /\ UNCHANGED <<price, today, connVars, ledger, pc, is_running, dayVars,
                   localVars, riskVars, log, interrupted, unitVars>>

\* a position is closed outside the bot (stop loss, take profit, owner)
ExternalClose ==
    /\ pc \in EnvPcs
    /\ \E t \in OpenTickets :
           /\ positions' = [positions EXCEPT ![t] = NoPos]
           /\ IF OpenTickets = {t}
              THEN account' \in FlatAccounts
              ELSE account' = account
    /\ UNCHANGED <<nextTicket, price, today, connVars, ledger, pc, is_running,
                   dayVars, localVars, riskVars, log, interrupted, unitVars>>

\* midnight passes
ClockAdvance ==
    /\ pc \in EnvPcs
    /\ today < MaxDay
    /\ today' = today + 1
    /\ UNCHANGED <<venueVars, connVars, ledger, pc, is_running, dayVars,
                   localVars, riskVars, log, interrupted, unitVars>>

\* ------------------------------------------------------------------------
\* TradingBot.start and TradingBot.stop
\* ------------------------------------------------------------------------

\* get_open_positions(): the open positions of a connected terminal; a
\* terminal that was shut down answers None, which the code turns into []
ListedPositions == IF mt5_connected THEN OpenTickets ELSE {}

\* for position in positions: the positions of the list that
\* close_all_positions asks close_position to close, closed being those
\* whose close succeeds
AttemptedTickets_UntilFailure(listed, closed) ==
    {t \in listed : \A u \in listed : u < t => u \in closed}

AttemptedTickets(listed, closed) == listed

\* close_all_positions: one close_position call per listed position, in the
\* order of the list, then the summary it logs (succeeded, failed); closed
\* are the tickets whose close succeeds
CloseEvents(closed) ==
    LET attempted == AttemptedTickets(ListedPositions, closed)
    IN  <<Ev("close_all_positions", NoAccount, Cardinality(ListedPositions), TRUE, "")>>
        \o SelectSeq([t \in 1..MaxTicket |->
                         Ev("close_position", NoAccount, t, t \in closed, "")],
                     LAMBDA e : e.n \in attempted)
        \o << Ev("close_summary", NoAccount, Cardinality(attempted \cap closed),
                 TRUE, "succeeded"),
              Ev("close_summary", NoAccount, Cardinality(attempted \ closed),
                 TRUE, "failed") >>

\* the venue after close_all_positions closed the tickets in closed
VenueAfterClose(closed) ==
    /\ positions' = [t \in Tickets |-> IF t \in closed THEN NoPos ELSE positions[t]]
    /\ IF OpenTickets # {} /\ closed = OpenTickets
       THEN account' \in FlatAccounts
       ELSE account' = account
    /\ UNCHANGED <<nextTicket, price>>

\* start() goes on to "self.is_running = True" only past both connects
StartedRunning_VenueOnly(venue_ok, store_ok) == venue_ok

StartedRunning(venue_ok, store_ok) == venue_ok /\ store_ok

\* main() constructs the bot and calls start(): connect the venue, then the
\* store, initialize the agent and announce the start.  A failed venue
\* connect returns False at once, a failed store connect disconnects the
\* venue and returns False; main() then exits with status 1 (pc "exit")
Start ==
    /\ pc = "start"
    /\ \E venue_ok, store_ok \in BOOLEAN :
           LET connects ==
                   <<Ev("mt5_connect", NoAccount, NoneVal, venue_ok, "")>>
                   \o (IF venue_ok
                       THEN <<Ev("db_connect", NoAccount, NoneVal, store_ok, "")>>
                       ELSE <<>>)
           IN  /\ venue_ok \/ ~store_ok
               /\ IF StartedRunning(venue_ok, store_ok)
                  THEN /\ pc' = "market_check"
                       /\ mt5_connected' = venue_ok
                       /\ db_connected' = store_ok
                       /\ is_running' = TRUE
                       /\ log' = connects \o
                              << Ev("initialize", NoAccount, NoneVal, TRUE, ""),
                                 Ev("send_alert", NoAccount, NoneVal, TRUE,
                                    "Trading Bot Started") >>
                  ELSE /\ pc' = "exit"
                       /\ mt5_connected' = FALSE
                       /\ db_connected' = FALSE
                       /\ log' = connects \o
                              (IF venue_ok
                               THEN <<Ev("mt5_disconnect", NoAccount, NoneVal, TRUE, "")>>
                               ELSE <<>>)
                       /\ UNCHANGED is_running
    /\ UNCHANGED <<venueVars, today, ledger, dayVars, localVars, riskVars,
                   interrupted, unitVars>>

\* stop(): close all positions, save the model, disconnect, notify
Stop ==
    /\ pc = "stop"
    /\ pc' = "stopped"
    /\ is_running' = FALSE
    /\ \E closed \in SUBSET ListedPositions :
           /\ VenueAfterClose(closed)
           /\ log' = log \o CloseEvents(closed) \o
                  << Ev("save_model", NoAccount, NoneVal, TRUE, ""),
                     Ev("mt5_disconnect", NoAccount, NoneVal, TRUE, ""),
                     Ev("db_disconnect", NoAccount, NoneVal, TRUE, ""),
                     Ev("send_alert", NoAccount, NoneVal, TRUE, "Trading Bot Stopped") >>
    /\ mt5_connected' = FALSE
    /\ db_connected' = FALSE
    /\ UNCHANGED <<today, ledger, dayVars, localVars, riskVars, interrupted, unitVars>>

\* ------------------------------------------------------------------------
\* TradingBot.run, one action per statement that calls a collaborator
\* ------------------------------------------------------------------------

Sleep(seconds) == Ev("sleep", NoAccount, seconds, TRUE, "")

\* where run goes after is_market_open returned open
MarketCheckNext_Spin(open) == IF open THEN "throttle_check" ELSE "market_check"

MarketCheckNext(open) == IF open THEN "throttle_check" ELSE "wait"

\* while self.is_running: ... if not self.mt5.is_market_open(): sleep(300)
MarketCheck ==
    /\ pc = "market_check"
    /\ IF ~is_running
       THEN /\ pc' = "stop"
            /\ UNCHANGED log
       ELSE \E open \in BOOLEAN :
               /\ pc' = MarketCheckNext(open)
               /\ log' = <<Ev("is_market_open", NoAccount, NoneVal, open, "")>>
                         \o (IF MarketCheckNext(open) = "wait"
                             THEN <<Sleep(SLEEP_MARKET_CLOSED)>> ELSE <<>>)
    /\ UNCHANGED <<venueVars, today, connVars, ledger, is_running, dayVars,
                   localVars, riskVars, interrupted, unitVars>>

\* if self.trades_today >= self.max_trades_per_day
ThrottleReached_Above(trades, cap) == trades > cap

ThrottleReached(trades, cap) == trades >= cap

\* if self.trades_today >= self.max_trades_per_day: sleep(3600); continue
ThrottleCheck ==
    /\ pc = "throttle_check"
    /\ IF ThrottleReached(trades_today, max_trades_per_day)
       THEN /\ pc' = "wait"
            /\ Append1(Sleep(SLEEP_THROTTLE))
       ELSE /\ pc' = "fetch_market"
            /\ UNCHANGED log
    /\ UNCHANGED <<venueVars, today, connVars, ledger, is_running, dayVars,
                   localVars, riskVars, interrupted, unitVars>>

\* market_data = self.mt5.get_market_data(); None: sleep(60); continue
FetchMarket ==
    /\ pc = "fetch_market"
    /\ \E ok \in BOOLEAN :
           /\ pc' = IF ok THEN "fetch_account" ELSE "wait"
           /\ log' = log \o <<Ev("get_market_data", NoAccount, NoneVal, ok, "")>>
                         \o (IF ok THEN <<>> ELSE <<Sleep(SLEEP_RETRY)>>)
    /\ UNCHANGED <<venueVars, today, connVars, ledger, is_running, dayVars,
                   localVars, riskVars, interrupted, unitVars>>

\* where run goes after get_account_info returned a snapshot (ok) or None
FetchAccountNext_Proceed(ok) == "day_rollover"

FetchAccountNext(ok) == IF ok THEN "day_rollover" ELSE "wait"

\* account_info = self.mt5.get_account_info(); None: sleep(60); continue.
\* The log entry also records how many positions were open at the venue.
FetchAccount ==
    /\ pc = "fetch_account"
    /\ \E ok \in BOOLEAN :
           LET snapshot == IF ok
                           THEN AccountDict(account.balance, account.equity,
                                            account.margin, account.margin_level)
                           ELSE NoAccount
           IN  /\ account_info' = snapshot
               /\ pc' = FetchAccountNext(ok)
               /\ log' = log \o <<Ev("get_account_info", snapshot,
                                     Cardinality(OpenTickets), ok, "")>>
                             \o (IF FetchAccountNext(ok) = "wait"
                                 THEN <<Sleep(SLEEP_RETRY)>> ELSE <<>>)
    /\ UNCHANGED <<venueVars, today, connVars, ledger, is_running, dayVars,
                   signal, trade_result, riskVars, interrupted, unitVars>>

\* if today != self.current_trading_day
RolloverDue_Always(date, trading_day) == TRUE

RolloverDue(date, trading_day) == date # trading_day

\* self.daily_start_equity = account_info.get('equity') of the rollover
StartEquityAtRollover_Seeded(start_equity, equity) ==
    IF start_equity = NoneVal THEN equity ELSE start_equity

StartEquityAtRollover(start_equity, equity) == equity

\* today = datetime.now().date(); reset of the daily counters on a new date;
\* seeding of daily_start_equity
DayRollover ==
    /\ pc = "day_rollover"
    /\ pc' = "risk_gate"
    /\ IF RolloverDue(today, current_trading_day)
       THEN /\ current_trading_day' = today
            /\ trades_today' = 0
            /\ daily_start_equity' =
                   StartEquityAtRollover(daily_start_equity, account_info.equity)
       ELSE /\ daily_start_equity' = IF daily_start_equity = NoneVal
                                     THEN account_info.equity
                                     ELSE daily_start_equity
            /\ UNCHANGED <<current_trading_day, trades_today>>
    /\ Append1(Ev("day_rollover", account_info, today,
                  today # current_trading_day, ""))
    /\ UNCHANGED <<venueVars, today, connVars, ledger, is_running, localVars,
                   riskVars, interrupted, unitVars>>

\* where run goes after check_risk_limits returned ok
RiskGateNext_NoContinue(ok) == "decide"

RiskGateNext_Report(ok) == IF ok THEN "decide" ELSE "report"

RiskGateNext(ok) == IF ok THEN "decide" ELSE "wait"

\* if not self.risk_manager.check_risk_limits(account_info): sleep(300); continue
RiskGate ==
    /\ pc = "risk_gate"
    /\ LET res == CheckRiskLimits(account_info, daily_start_balance, daily_losses)
       IN  /\ daily_start_balance' = res.daily_start_balance
           /\ daily_losses' = IF res.daily_losses > MaxLosses
                              THEN MaxLosses ELSE res.daily_losses
           /\ pc' = RiskGateNext(res.ok)
           /\ log' = log \o <<Ev("check_risk_limits", account_info,
                                 res.daily_start_balance, res.ok, "")>>
                         \o (IF RiskGateNext(res.ok) = "wait"
                             THEN <<Sleep(SLEEP_RISK)>> ELSE <<>>)
    /\ UNCHANGED <<venueVars, today, connVars, ledger, is_running, dayVars,
                   localVars, interrupted, unitVars>>

\* the actions TradingAgent.get_trading_signal can return
Actions == {"HOLD", "BUY", "SELL", "CLOSE"}

\* if signal['action'] != 'HOLD': if signal['action'] == 'CLOSE': ... else: ...
SignalBranch_TradeUnlessHold(action) ==
    IF action = "HOLD" THEN "report" ELSE "execute_trade"

SignalBranch(action) ==
    IF action = "HOLD" THEN "report"
    ELSE IF action = "CLOSE" THEN "close_all"
    ELSE "execute_trade"

\* signal = self.agent.get_trading_signal(market_data, account_info), and
\* the branch on signal['action'].  The log entry also records trades_today
\* at that moment.
Decide ==
    /\ pc = "decide"
    /\ \E a \in Actions :
           /\ signal' = a
           /\ pc' = SignalBranch(a)
           /\ Append1(Ev("get_trading_signal", account_info, trades_today, TRUE, a))
    /\ UNCHANGED <<venueVars, today, connVars, ledger, is_running, dayVars,
                   account_info, trade_result, riskVars, interrupted, unitVars>>

\* CLOSE: self.mt5.close_all_positions()
CloseAll ==
    /\ pc = "close_all"
    /\ pc' = "report"
    /\ \E closed \in SUBSET ListedPositions :
           /\ VenueAfterClose(closed)
           /\ log' = log \o CloseEvents(closed)
    /\ UNCHANGED <<today, connVars, ledger, is_running, dayVars, localVars,
                   riskVars, interrupted, unitVars>>

\* signal.get('stop_loss') for the signals get_trading_signal builds, whose
\* keys are action, symbol, confidence, stop_loss_pips and take_profit_pips
SignalStopLoss(action) == NoneVal

\* place_order(symbol, order_type, volume, stop_loss, take_profit) in the log
PlaceOrder(order_id, ok, order_type, stop_loss) ==
    [Ev("place_order", NoAccount, order_id, ok, order_type)
        EXCEPT !.stop_loss = stop_loss]

\* get_stop_loss_price(entry_price, order_type, stop_loss_pips), in pips
GetStopLossPrice(entry_price, order_type, stop_loss_pips) ==
    IF order_type = "BUY"
    THEN entry_price - stop_loss_pips
    ELSE entry_price + stop_loss_pips

\* what execute_trade returns for place_order's result
ExecuteTradeReturn_Always(result) == result

ExecuteTradeReturn(result) == IF result.success THEN result ELSE NoResult

\* BUY/SELL: trade_result = self.execute_trade(signal, account_info), which
\* sizes the order from the balance of the snapshot it is given and places
\* it; the venue fills it at the current price (a terminal that was shut
\* down fills nothing), rejects it, or the body of execute_trade raises and
\* its handler returns None
ExecuteTrade ==
    /\ pc = "execute_trade"
    /\ \E volume \in CalculatePositionSize(account_info.balance, signal_stop_loss_pips) :
       LET sizing == Ev("calculate_position_size", NoAccount,
                        account_info.balance, TRUE, "")
           after(result) ==
               /\ trade_result' = ExecuteTradeReturn(result)
               /\ pc' = IF ExecuteTradeReturn(result) # NoResult
                        THEN "post_trade" ELSE "report"
       IN  \/ /\ mt5_connected
              /\ nextTicket <= MaxTicket
              /\ price = EntryPrice
              /\ positions' = [positions EXCEPT ![nextTicket] =
                                  [type |-> signal, price_open |-> price]]
              /\ nextTicket' = nextTicket + 1
              /\ IF OpenTickets = {}
                 THEN account' \in MarginAccounts
                 ELSE account' = account
              /\ after([success |-> TRUE, order_id |-> nextTicket,
                        volume |-> volume, price |-> price, type |-> signal])
              /\ log' = log \o <<sizing, PlaceOrder(nextTicket, TRUE, signal,
                                                    SignalStopLoss(signal))>>
              /\ UNCHANGED price
           \/ /\ after(FailedResult)
              /\ log' = log \o <<sizing, PlaceOrder(NoneVal, FALSE, signal,
                                                    SignalStopLoss(signal))>>
              /\ UNCHANGED venueVars
           \/ /\ trade_result' = NoResult
              /\ pc' = "report"
              /\ log' = log \o <<sizing, Ev("execute_trade_raised", NoAccount,
                                            NoneVal, FALSE, signal)>>
              /\ UNCHANGED venueVars
    /\ UNCHANGED <<today, connVars, ledger, is_running, dayVars, account_info,
                   signal, riskVars, interrupted, unitVars>>

\* self.trades_today += 1
TradesAfterSuccess_Twice(n) == n + 2

TradesAfterSuccess(n) == n + 1

\* if trade_result: count the trade, self.db.log_trade(trade_result),
\* self.agent.record_trade(trade_result).  log_trade inserts the row unless
\* the order id is already there; when the store fails it returns False, or
\* raises when the rollback in its handler fails too, as it does on a
\* connection that was closed
PostTrade ==
    /\ pc = "post_trade"
    /\ trades_today' = TradesAfterSuccess(trades_today)
    /\ LET id == trade_result.order_id
           record == Ev("record_trade", NoAccount, id, TRUE, "")
       IN  \/ /\ db_connected
              /\ ledger' = InsertTrade(ledger, trade_result)
              /\ log' = log \o <<Ev("log_trade", NoAccount, id,
                                    InsertTrade(ledger, trade_result) # ledger, ""),
                                 record>>
              /\ pc' = "report"
           \/ /\ db_connected
              /\ log' = log \o <<Ev("log_trade", NoAccount, id, FALSE, "store error")>>
                            \o <<record>>
              /\ pc' = "report"
              /\ UNCHANGED ledger
           \/ /\ log' = log \o <<Ev("log_trade", NoAccount, id, FALSE, "raised")>>
              /\ pc' = "except"
              /\ UNCHANGED ledger
    /\ UNCHANGED <<venueVars, today, connVars, is_running, current_trading_day,
                   daily_start_equity, localVars, riskVars, interrupted, unitVars>>

\* self.update_metrics(account_info); time.sleep(60)
Report ==
    /\ pc = "report"
    /\ pc' = "wait"
    /\ log' = log \o
          << Ev("publish_metric", NoAccount, account_info.balance, TRUE, "AccountBalance"),
             Ev("publish_metric", NoAccount, account_info.equity, TRUE, "AccountEquity"),
             Ev("publish_metric", NoAccount, trades_today, TRUE, "TradesExecuted"),
             Ev("publish_metric", NoAccount,
                account_info.equity - daily_start_equity, TRUE, "DailyPnL"),
             Sleep(SLEEP_ITERATION) >>
    /\ UNCHANGED <<venueVars, today, connVars, ledger, is_running, dayVars,
                   localVars, riskVars, interrupted, unitVars>>

\* a sleep of the try block returns: continue, or fall through to the loop
\* test; the iteration's locals are dead and its log is closed
WaitDone ==
    /\ pc = "wait"
    /\ pc' = "market_check"
    /\ account_info' = NoAccount
    /\ signal' = "NONE"
    /\ trade_result' = NoResult
    /\ log' = <<>>
    /\ UNCHANGED <<venueVars, today, connVars, ledger, is_running, dayVars,
                   riskVars, interrupted, unitVars>>

\* where the generic handler leaves run
HandlerNext_Break == "stop"

HandlerNext == "except_wait"

\* except Exception: send the alert, time.sleep(60)
Except ==
    /\ pc = "except"
    /\ pc' = HandlerNext
    /\ log' = log \o << Ev("send_alert", NoAccount, NoneVal, TRUE, "Trading Bot Error"),
                        Sleep(SLEEP_ERROR) >>
    /\ UNCHANGED <<venueVars, today, connVars, ledger, is_running, dayVars,
                   localVars, riskVars, interrupted, unitVars>>

\* the handler's sleep returns: back to the loop test
ExceptWaitDone ==
    /\ pc = "except_wait"
    /\ pc' = "market_check"
    /\ account_info' = NoAccount
    /\ signal' = "NONE"
    /\ trade_result' = NoResult
    /\ log' = <<>>
    /\ UNCHANGED <<venueVars, today, connVars, ledger, is_running, dayVars,
                   riskVars, interrupted, unitVars>>

\* the stop request: a KeyboardInterrupt raised in the statement run is at.
\* Inside the try block the loop's except KeyboardInterrupt breaks to stop();
\* inside the generic handler nothing catches it (main() catches Exception
\* only) and the process ends without stop().  The iteration is abandoned:
\* its locals are dead and its log is closed
KeyboardInterrupt ==
    /\ ~interrupted
    /\ pc \in TryPcs \cup HandlerPcs
    /\ interrupted' = TRUE
    /\ pc' = IF pc \in TryPcs THEN "stop" ELSE "crashed"
    /\ account_info' = NoAccount
    /\ signal' = "NONE"
    /\ trade_result' = NoResult
    /\ log' = <<>>
    /\ UNCHANGED <<venueVars, today, connVars, ledger, is_running, dayVars,
                   riskVars, unitVars>>

\* ------------------------------------------------------------------------
\* TradingBot.stop, called from another thread while run executes
\* ------------------------------------------------------------------------

\* stop() up to the return of close_all_positions: the flag is cleared and
\* the positions listed are asked to close, while run goes on with the
\* statement it is at
StopCallCloseAll ==
    /\ call.fn = "none"
    /\ is_running
    /\ pc \in TryPcs \cup HandlerPcs
    /\ is_running' = FALSE
    /\ \E closed \in SUBSET ListedPositions : VenueAfterClose(closed)
    /\ call' = [NoCall EXCEPT !.fn = "stop", !.outcome = "closing"]
    /\ UNCHANGED <<today, connVars, ledger, pc, dayVars, localVars, riskVars,
                   log, interrupted, position_peaks>>

\* the rest of stop(): save the model, disconnect the venue and the store,
\* send the alert
StopCallDisconnect ==
    /\ call.fn = "stop"
    /\ call.outcome = "closing"
    /\ mt5_connected' = FALSE
    /\ db_connected' = FALSE
    /\ call' = [call EXCEPT !.outcome = "done"]
    /\ UNCHANGED <<venueVars, today, ledger, pc, is_running, dayVars, localVars,
                   riskVars, log, interrupted, position_peaks>>

\* ------------------------------------------------------------------------
\* RiskManager, called directly
\* ------------------------------------------------------------------------

\* arguments and configurations of calculate_position_size
SizerBalances == {0 - 100, 0, 50, 99, 100, 101, 625, 1000, 10000, 12345}
SizerStops == {0 - 5, 0, 1, 7, 20, 40, 3000}
SizerConfigs == [risk : {1, 2}, leverage : {10, 20}]

\* calculate_position_size(account_balance, stop_loss_pips) on a RiskManager
\* constructed with configuration c
CalculatePositionSizeCall ==
    /\ \E b \in SizerBalances, slp \in SizerStops, c \in SizerConfigs :
           \E v \in PositionSizes(b, slp, c.risk, c.leverage) :
               call' = [NoCall EXCEPT !.fn = "calculate_position_size",
                                      !.account_balance = b,
                                      !.stop_loss_pips = slp,
                                      !.max_risk_per_trade = c.risk,
                                      !.max_leverage = c.leverage,
                                      !.size = v]
    /\ UNCHANGED <<loopVars, riskVars, position_peaks>>

\* snapshots given to check_risk_limits: a missing key is NoneVal
RiskSnapshots ==
    [balance : {NoneVal, 0, 9400, 9500, 10000},
     equity : {NoneVal, 7600, 10000},
     margin : {0, 1000},
     margin_level : {NoneVal, 150},
     open_positions : {NoneVal, max_positions}]

\* check_risk_limits(snapshot)
CheckRiskLimitsCall ==
    /\ \E snapshot \in RiskSnapshots :
           LET res == CheckRiskLimits(snapshot, daily_start_balance, daily_losses)
           IN  /\ res.daily_losses <= MaxCallLosses
               /\ daily_start_balance' = res.daily_start_balance
               /\ daily_losses' = res.daily_losses
               /\ call' = [NoCall EXCEPT !.fn = "check_risk_limits",
                                          !.acct = snapshot,
                                          !.ok = res.ok]
    /\ UNCHANGED <<loopVars, position_peaks>>

\* tickets of the positions given to should_close_position
TrackerTickets == {1, 2}

\* the position dicts given to should_close_position: one per ticket, long
\* at 1.1000 for odd tickets and short at 1.0000 for even ones, of LotVolume
\* lots; a long one without 'ticket'; and one with price_open 0
LotVolume == 10000

PositionOf(t) ==
    [ticket |-> t,
     type |-> IF t % 2 = 1 THEN "BUY" ELSE "SELL",
     price_open |-> IF t % 2 = 1 THEN 11000 ELSE 10000,
     volume |-> LotVolume]

TrackerPositions ==
    {PositionOf(t) : t \in TrackerTickets}
    \cup {[PositionOf(1) EXCEPT !.ticket = NoneVal],
          [PositionOf(1) EXCEPT !.price_open = 0]}

\* the prices given to should_close_position, in pips; none of them puts the
\* PnL% of a position of the model exactly on the profit threshold, where the
\* rounding of the double decides the comparison
TrackerPrices ==
    {9400, 9700, 9850, 10200, 10780, 11154, 11165, 11187, 11330, 11660}

\* should_close_position(position, current_price)
ShouldClosePositionCall ==
    /\ \E position \in TrackerPositions, current_price \in TrackerPrices :
           LET res == ShouldClosePosition(position, current_price,
                                          position_peaks, daily_losses)
           IN  /\ res.daily_losses <= MaxCallLosses
               /\ position_peaks' = res.position_peaks
               /\ daily_losses' = res.daily_losses
               /\ call' = [NoCall EXCEPT !.fn = "should_close_position",
                                          !.position = position,
                                          !.current_price = current_price,
                                          !.ok = res.ok]
    /\ UNCHANGED <<loopVars, daily_start_balance>>

\* if ticket in self.position_peaks: del self.position_peaks[ticket]
PeaksAfterClear_All(peaks, ticket) == [t \in Tickets |-> NoneVal]

PeaksAfterClear(peaks, ticket) == [peaks EXCEPT ![ticket] = NoneVal]

\* clear_position_peak(ticket)
ClearPositionPeakCall ==
    /\ \E t \in Tickets :
           /\ position_peaks' = PeaksAfterClear(position_peaks, t)
           /\ call' = [NoCall EXCEPT !.fn = "clear_position_peak",
                                      !.position = [NoPosition EXCEPT !.ticket = t]]
    /\ UNCHANGED <<loopVars, riskVars>>

\* reset_daily_metrics()
ResetDailyMetricsCall ==
    /\ daily_start_balance' = NoneVal
    /\ daily_losses' = 0
    /\ position_peaks' = [t \in Tickets |-> NoneVal]
    /\ call' = [NoCall EXCEPT !.fn = "reset_daily_metrics"]
    /\ UNCHANGED loopVars

\* ------------------------------------------------------------------------
\* DatabaseManager, called directly
\* ------------------------------------------------------------------------

\* connect(): psycopg2.connect succeeds and the tables are created, or it
\* raises and connect returns False with self.conn unchanged
ConnectCall ==
    /\ \E ok \in BOOLEAN :
           /\ db_connected' = (ok \/ db_connected)
           /\ call' = [NoCall EXCEPT !.fn = "connect", !.ok = ok]
    /\ UNCHANGED <<venueVars, today, mt5_connected, ledger, pc, is_running,
                   dayVars, localVars, log, interrupted, riskVars, position_peaks>>

\* order ids, trade dicts and close data given to the ledger
LedgerOrderIds == {1, 2}

LedgerTrades ==
    { [success |-> TRUE, order_id |-> id, volume |-> 100, price |-> p, type |-> "BUY"] :
        id \in LedgerOrderIds, p \in Prices }

LedgerCloses ==
    [order_id : LedgerOrderIds, close_price : {10100, 10200}, profit : {0 - 50, 50},
     close_time : {1}]

\* what a ledger method does with its statement: without a connection
\* self.conn is None and the handler's self.conn.rollback() raises; on a
\* connection the statement is executed, or the store fails and the handler
\* rolls back and returns False, or the rollback fails too and raises
StoreOutcomes == IF db_connected THEN {"executed", "failed", "raised"} ELSE {"raised"}

\* log_trade(trade)
LogTradeCall ==
    /\ \E trade \in LedgerTrades, outcome \in StoreOutcomes :
           LET rows == IF outcome = "executed" THEN InsertTrade(ledger, trade) ELSE ledger
           IN  /\ ledger' = rows
               /\ call' = [NoCall EXCEPT !.fn = "log_trade",
                                          !.trade = trade,
                                          !.ok = (rows # ledger),
                                          !.outcome = outcome]
    /\ UNCHANGED <<venueVars, today, connVars, pc, is_running, dayVars, localVars,
                   log, interrupted, riskVars, position_peaks>>

\* update_trade(order_id, close_price, profit, close_time)
UpdateTradeCall ==
    /\ \E close \in LedgerCloses, outcome \in StoreOutcomes :
           LET rows == IF outcome = "executed"
                       THEN UpdateTrade(ledger, close.order_id, close.close_price,
                                        close.profit, close.close_time)
                       ELSE ledger
           IN  /\ ledger' = rows
               /\ call' = [NoCall EXCEPT !.fn = "update_trade",
                                          !.close = close,
                                          !.ok = (outcome = "executed"
                                                  /\ close.order_id \in LedgerIds),
                                          !.outcome = outcome]
    /\ UNCHANGED <<venueVars, today, connVars, pc, is_running, dayVars, localVars,
                   log, interrupted, riskVars, position_peaks>>

\* ------------------------------------------------------------------------
\* Specifications
\* ------------------------------------------------------------------------

\* the steps of the program
BotStep ==
    \/ Start \/ Stop \/ MarketCheck \/ ThrottleCheck \/ FetchMarket
    \/ FetchAccount \/ DayRollover \/ RiskGate \/ Decide \/ CloseAll
    \/ ExecuteTrade \/ PostTrade \/ Report \/ WaitDone \/ Except
    \/ ExceptWaitDone

\* the steps of the environment
EnvStep ==
    \/ Tick \/ AccountChange \/ ExternalOpen \/ ExternalClose \/ ClockAdvance
    \/ KeyboardInterrupt

Next == BotStep \/ EnvStep

Spec == Init /\ [][Next]_vars

\* the single thread of the program keeps running: every call and every
\* sleep returns
FairSpec == Spec /\ WF_vars(BotStep)

\* the program with a second thread that may call stop() once
ShutdownNext == Next \/ StopCallCloseAll \/ StopCallDisconnect

ShutdownSpec == Init /\ [][ShutdownNext]_vars

\* calculate_position_size called with any arguments, any number of times
SizerNext == CalculatePositionSizeCall

SizerSpec == Init /\ [][SizerNext]_vars

\* the methods of a RiskManager called in any order, any number of times
RiskManagerNext ==
    \/ CheckRiskLimitsCall \/ ShouldClosePositionCall
    \/ ClearPositionPeakCall \/ ResetDailyMetricsCall

RiskManagerSpec == Init /\ [][RiskManagerNext]_vars

\* the methods of a DatabaseManager called in any order, any number of times
LedgerNext == ConnectCall \/ LogTradeCall \/ UpdateTradeCall

LedgerSpec == Init /\ [][LedgerNext]_vars

\* ------------------------------------------------------------------------
\* Properties
\* ------------------------------------------------------------------------

\* positions in the log of the entries of a call
Idx(op) == {i \in DOMAIN log : log[i].op = op}

\* the iteration has reached its wait: its log is complete
IterationEnded == pc \in {"wait", "except_wait"}

\* the four metrics of update_metrics followed by the 60s wait
IsReportAndWait(events) ==
    /\ Len(events) = 5
    /\ \A k \in 1..4 : events[k].op = "publish_metric"
    /\ events[1].s = "AccountBalance"
    /\ events[2].s = "AccountEquity"
    /\ events[3].s = "TradesExecuted"
    /\ events[4].s = "DailyPnL"
    /\ events[5] = Sleep(SLEEP_ITERATION)

\* the log after its entry i
LogAfter(i) == SubSeq(log, i + 1, Len(log))

\* C1: in every iteration the signal source is asked only after
\* check_risk_limits returned true on the same snapshot, the position is
\* sized from the balance of that snapshot, and get_account_info is called
\* at most once, before the gate
C1_GateBeforeDecision ==
    /\ Cardinality(Idx("get_account_info")) <= 1
    /\ \A g \in Idx("check_risk_limits") :
           \E f \in Idx("get_account_info") :
               f < g /\ log[f].ok /\ log[f].acct = log[g].acct
    /\ \A d \in Idx("get_trading_signal") :
           \E g \in Idx("check_risk_limits") :
               g < d /\ log[g].ok /\ log[g].acct = log[d].acct
    /\ \A z \in Idx("calculate_position_size") :
           \E d \in Idx("get_trading_signal") :
               d < z /\ log[z].n = log[d].acct.balance
    /\ \A o \in Idx("place_order") :
           \E z \in Idx("calculate_position_size") : z < o

\* C1 witness: an order was sized and placed after the account had moved
\* away from the iteration's snapshot
C1_Witness ==
    /\ Idx("place_order") # {}
    /\ account_info # NoAccount
    /\ account.balance # account_info.balance

\* the risk conditions other than the margin level hold for a snapshot
\* checked against the baseline start
OtherRiskConditionsHold(snapshot, start) ==
    /\ snapshot.open_positions = NoneVal \/ snapshot.open_positions < max_positions
    /\ start > 0
    /\ (start - snapshot.balance) * 100 < max_daily_loss_pct * start
    /\ snapshot.equity * 100 >= snapshot.balance * equity_floor_pct

\* C2: a snapshot with margin = 0 that satisfies every other risk condition
\* passes check_risk_limits
C2_Orig ==
    \A g \in Idx("check_risk_limits") :
        (log[g].acct.margin = 0 /\ OtherRiskConditionsHold(log[g].acct, log[g].n))
            => log[g].ok

\* C3: no order is submitted in an iteration whose account snapshot was
\* taken while max_positions or more positions were open
C3_Orig ==
    \A o \in Idx("place_order") :
        \A f \in Idx("get_account_info") : log[f].n < max_positions

\* the loop saw the market closed in this iteration
MarketSeenClosed == Idx("is_market_open") # {} /\ ~log[1].ok

\* C4: once the date has changed while the daily trade cap is reached and
\* the market stays open, trades_today is eventually reset to 0
C4_Orig ==
    (is_running /\ trades_today >= max_trades_per_day /\ today # current_trading_day)
        ~> (trades_today = 0 \/ interrupted \/ MarketSeenClosed)

\* C5: in the iteration of a day rollover the gate's daily-loss baseline is
\* the balance of that iteration's snapshot, the first of the new day, and
\* the accumulated loss has restarted from 0
C5_Orig ==
    \A r \in Idx("day_rollover") : \A g \in Idx("check_risk_limits") :
        log[r].ok => (log[g].n = log[g].acct.balance /\ daily_losses = 0)

\* stop() has run to its end
ShutdownDone ==
    /\ pc = "stopped"
    /\ ~is_running
    /\ ~mt5_connected
    /\ ~db_connected
    /\ Idx("close_all_positions") # {}
    /\ Idx("save_model") # {}
    /\ \E a \in Idx("send_alert") : log[a].s = "Trading Bot Stopped"

\* C6: a stop request delivered while run executes leads to the orderly
\* shutdown: the program never ends without stop() having run
C6_Orig == (interrupted /\ pc # "stop") => ShutdownDone

\* C7: an exception caught at the iteration boundary is alerted and followed
\* by the 60s wait with is_running still true, the loop then resumes at
\* MARKET_CHECK, and the shutdown is entered only on a stop request
C7_ErrorsNeverStopTheLoop ==
    /\ [](pc \in HandlerPcs => is_running)
    /\ [](pc = "except_wait" =>
            /\ Len(log) >= 2
            /\ log[Len(log) - 1].op = "send_alert"
            /\ log[Len(log) - 1].s = "Trading Bot Error"
            /\ log[Len(log)] = Sleep(SLEEP_ERROR))
    /\ [](pc \in {"stop", "stopped", "crashed"} => interrupted)
    /\ [][pc = "except" => pc' \in {"except_wait", "crashed"}]_vars
    /\ [][pc = "except_wait" => pc' \in {"except_wait", "market_check", "crashed"}]_vars

\* C7 witness: after two orders whose record the store did not take, the
\* loop is in its error backoff, still running
C7_Witness ==
    /\ pc = "except_wait"
    /\ is_running
    /\ ~interrupted
    /\ trades_today = 2
    /\ ledger = {}

\* the bot has asked the venue to close position t in this iteration
CloseRequested(t) == \E c \in Idx("close_position") : log[c].n = t

\* the bot runs and position t is open at or below the hard-stop level
MustClose(t) ==
    is_running /\ positions[t] # NoPos /\ HardStopHit(positions[t], price)

\* the iteration went to a wait before its end: market closed, trade cap,
\* missing snapshot or failed risk gate
IterationCutShort == pc = "wait" /\ Idx("publish_metric") = {}

\* the close of position t has been requested, or the position is gone, has
\* recovered, the iteration was cut short, or the bot was told to stop
CloseRequestedOrMoot(t) ==
    \/ CloseRequested(t)
    \/ IterationCutShort
    \/ positions[t] = NoPos
    \/ ~HardStopHit(positions[t], price)
    \/ interrupted

\* C8: while the bot runs, a close is eventually requested for an open
\* position whose PnL% is at or below -max_risk_per_trade
C8_Orig == \A t \in Tickets : MustClose(t) ~> CloseRequestedOrMoot(t)

\* the order of this iteration that the venue filled, if any
FilledOrders == {o \in Idx("place_order") : log[o].ok}

\* the attempts of this iteration to trade that failed: a rejected order, or
\* an exception inside execute_trade
FailedAttempts ==
    {x \in Idx("place_order") : ~log[x].ok} \cup Idx("execute_trade_raised")

\* trades_today when this iteration asked for its signal
TradesAtDecision == log[CHOOSE d \in Idx("get_trading_signal") : TRUE].n

\* C9: an iteration whose order was filled ends with trades_today raised by
\* exactly 1, one log_trade call for that order that persisted its record,
\* the signal source notified, and the metrics published before the 60s wait
C9_Orig ==
    IterationEnded =>
        \A o \in FilledOrders :
            /\ trades_today = TradesAtDecision + 1
            /\ Idx("log_trade") = {o + 1}
            /\ log[o + 1].n = log[o].n
            /\ log[o + 1].ok
            /\ log[o].n \in LedgerIds
            /\ Idx("record_trade") = {o + 2}
            /\ log[o + 2].n = log[o].n
            /\ IsReportAndWait(LogAfter(o + 2))

\* C9 as amended: an iteration whose order was filled ends with trades_today
\* raised by exactly 1 and exactly one log_trade call for that order, whose
\* record is in the ledger exactly if log_trade returned true; unless
\* log_trade raised, the signal source is then notified and the metrics are
\* published before the 60s wait; if log_trade raised, the iteration ends in
\* the error handler with the alert and the 60s backoff instead
C9_FilledOrderBookkeeping ==
    IterationEnded =>
        \A o \in FilledOrders :
            /\ trades_today = TradesAtDecision + 1
            /\ Idx("log_trade") = {o + 1}
            /\ log[o + 1].n = log[o].n
            /\ log[o + 1].ok <=> log[o].n \in LedgerIds
            /\ IF log[o + 1].s = "raised"
               THEN /\ pc = "except_wait"
                    /\ Idx("record_trade") = {}
                    /\ Idx("publish_metric") = {}
                    /\ LogAfter(o + 1) =
                          << Ev("send_alert", NoAccount, NoneVal, TRUE, "Trading Bot Error"),
                             Sleep(SLEEP_ERROR) >>
               ELSE /\ pc = "wait"
                    /\ Idx("record_trade") = {o + 2}
                    /\ log[o + 2].n = log[o].n
                    /\ IsReportAndWait(LogAfter(o + 2))
                    /\ log[o + 5].n = trades_today

\* C9 witness: an iteration with a filled order has ended normally, its
\* record is in the ledger and it was the second trade of the day
C9_Witness ==
    /\ pc = "wait"
    /\ \E o \in FilledOrders : log[o].n \in LedgerIds /\ log[o + 1].ok
    /\ trades_today = 2

\* C10: after a rejected order or an exception inside execute_trade, the
\* iteration does not count a trade, does not call log_trade, record_trade,
\* send_alert or place_order again, and goes on to the metrics and the
\* normal 60s wait
C10_FailedOrderIsSilent ==
    \A x \in FailedAttempts :
        /\ Cardinality(Idx("place_order")) <= 1
        /\ Idx("log_trade") = {}
        /\ Idx("record_trade") = {}
        /\ Idx("send_alert") = {}
        /\ trades_today = TradesAtDecision
        /\ trade_result = NoResult
        /\ \/ pc = "report" /\ Len(log) = x
           \/ pc = "wait" /\ IsReportAndWait(LogAfter(x))

\* C10 witness: an iteration whose order the venue rejected has reached the
\* normal wait, with the one trade counted earlier that day still counted
C10_Witness ==
    /\ pc = "wait"
    /\ \E x \in Idx("place_order") : ~log[x].ok /\ IsReportAndWait(LogAfter(x))
    /\ trades_today = 1

\* calculate_position_size has returned
Sized == call.fn = "calculate_position_size"

\* (balance / 100000) * max_leverage, in 1/10000 lots
SizeCeiling == (call.account_balance * call.max_leverage) \div 10

\* C13: calculate_position_size returns a volume v with
\* 0.01 <= v <= (balance / 100000) * max_leverage
C13_Orig == Sized => (100 <= call.size /\ call.size <= SizeCeiling)

\* C14: for stop_loss_pips <= 0, whatever the balance and the configuration,
\* calculate_position_size returns exactly 0.01
C14_NonPositiveStopGivesFloor ==
    (Sized /\ call.stop_loss_pips <= 0) => call.size = 100

\* C14 witness: a call with stop distance 0 and a negative balance returned
\* 0.01
C14_Witness ==
    /\ Sized
    /\ call.stop_loss_pips = 0
    /\ call.account_balance < 0
    /\ call.size = 100

\* |x|
Abs(x) == IF x < 0 THEN 0 - x ELSE x

\* C15: for stop_loss_pips > 0 the result is the reference computation:
\* rawSize = balance * max_risk_per_trade / (stop_loss_pips * 10) lots taken
\* to a nearest hundredth h, raised to 0.01 if below it, then lowered to
\* (balance / 100000) * max_leverage if above it; and balance 10000, risk
\* 0.02, stop 20, leverage 10 gives exactly 1.0
C15_SizeIsReferenceComputation ==
    (Sized /\ call.stop_loss_pips > 0) =>
        LET num == call.account_balance * call.max_risk_per_trade
            den == call.stop_loss_pips * 10
            raised(h) == IF 100 * h < 100 THEN 100 ELSE 100 * h
            lowered(v) == IF v > SizeCeiling THEN SizeCeiling ELSE v
        IN  /\ \E h \in (num \div den)..(num \div den + 1) :
                   /\ 2 * Abs(h * den - num) <= den
                   /\ call.size = lowered(raised(h))
            /\ (/\ call.account_balance = 10000
                /\ call.max_risk_per_trade = 2
                /\ call.stop_loss_pips = 20
                /\ call.max_leverage = 10) => call.size = 10000

\* C15 witness: a raw size of 0.61725 lots came out as 0.62, between the
\* floor and the ceiling
C15_Witness ==
    /\ Sized
    /\ call.account_balance = 12345
    /\ call.max_risk_per_trade = 2
    /\ call.stop_loss_pips = 40
    /\ call.size = 6200
    /\ call.size < SizeCeiling

\* check_risk_limits returned false in this iteration
GateFailed == \E g \in Idx("check_risk_limits") : ~log[g].ok

\* C11: when check_risk_limits returns false the iteration goes no further:
\* no signal is requested, no order is sized or placed, no position is
\* closed, nothing is written to the ledger, no metric is published, no
\* alert is sent and trades_today is unchanged; the loop waits 300s and
\* re-enters MARKET_CHECK
C11_FailedGateEndsIteration ==
    /\ [](\A g \in Idx("check_risk_limits") :
            ~log[g].ok =>
                /\ pc = "wait"
                /\ Len(log) = g + 1
                /\ log[g + 1] = Sleep(SLEEP_RISK)
                /\ \A op \in {"get_trading_signal", "calculate_position_size",
                                "place_order", "close_all_positions",
                                "close_position", "log_trade", "record_trade",
                                "publish_metric", "send_alert"} : Idx(op) = {})
    /\ [][pc = "risk_gate" => trades_today' = trades_today]_vars
    /\ [][GateFailed =>
             /\ trades_today' = trades_today
             /\ pc' \in {"wait", "market_check"} \/ interrupted']_vars

\* C11 witness: the gate has failed in an iteration that started with a
\* trade counted and a position open
C11_Witness ==
    /\ GateFailed
    /\ pc = "wait"
    /\ trades_today = 1
    /\ OpenTickets # {}

\* C12: the day rollover happens exactly once per date change: the first
\* iteration that reaches DAY_ROLLOVER on a date other than the stored
\* trading day sets trades_today to 0, the daily start equity to the equity
\* of its snapshot and the trading day to the date; an iteration that
\* reaches it on the stored trading day resets neither, and nothing else
\* resets them
C12_RolloverOncePerDateChange ==
    /\ [][(pc = "day_rollover" /\ pc' = "risk_gate") =>
             IF today # current_trading_day
             THEN /\ trades_today' = 0
                  /\ daily_start_equity' = account_info.equity
                  /\ current_trading_day' = today
             ELSE /\ trades_today' = trades_today
                  /\ current_trading_day' = current_trading_day
                  /\ daily_start_equity # NoneVal =>
                         daily_start_equity' = daily_start_equity]_vars
    /\ [][current_trading_day' # current_trading_day =>
             (pc = "day_rollover" /\ current_trading_day' = today)]_vars
    /\ [][trades_today' < trades_today =>
             (pc = "day_rollover" /\ today # current_trading_day)]_vars
    /\ [][(daily_start_equity # NoneVal /\ daily_start_equity' # daily_start_equity) =>
             (pc = "day_rollover" /\ today # current_trading_day)]_vars

\* C12 witness: after the rollover to day 2 and a trade on that day, a later
\* iteration of day 2 has passed DAY_ROLLOVER without a reset
C12_Witness ==
    /\ pc = "risk_gate"
    /\ today = 2
    /\ current_trading_day = 2
    /\ trades_today = 1
    /\ \E r \in Idx("day_rollover") : ~log[r].ok

\* the latest call was check_risk_limits; call.acct is the snapshot it was
\* given and daily_start_balance the start balance it compared against
Checked == call.fn = "check_risk_limits"

PositionCountReached ==
    /\ call.acct.open_positions # NoneVal
    /\ call.acct.open_positions >= max_positions

InvalidStart ==
    /\ daily_start_balance # NoneVal
    /\ daily_start_balance <= 0

DailyLossBreach ==
    /\ call.acct.balance # NoneVal
    /\ daily_start_balance # NoneVal
    /\ daily_start_balance > 0
    /\ (daily_start_balance - call.acct.balance) * 100
           >= max_daily_loss_pct * daily_start_balance

MarginLevelLow ==
    /\ call.acct.margin_level # NoneVal
    /\ call.acct.margin_level < margin_level_floor
    /\ call.acct.margin > 0

EquityLow ==
    /\ call.acct.balance # NoneVal
    /\ call.acct.equity # NoneVal
    /\ call.acct.equity * 100 < equity_floor_pct * call.acct.balance

\* C16: check_risk_limits returns false whenever at least one of the five
\* risk conditions holds for its snapshot, whatever the other fields are:
\* open_positions >= max_positions, start balance <= 0, daily loss share
\* >= max_daily_loss, margin_level < 200 with margin > 0, equity < 80% of
\* the balance.
C16_EachConditionFailsGate ==
    (Checked /\ (\/ PositionCountReached
                 \/ InvalidStart
                 \/ DailyLossBreach
                 \/ MarginLevelLow
                 \/ EquityLow))
        => ~call.ok

\* a snapshot whose only failing condition is the equity floor was rejected
C16_Witness ==
    /\ Checked
    /\ EquityLow
    /\ ~PositionCountReached
    /\ ~InvalidStart
    /\ ~DailyLossBreach
    /\ ~MarginLevelLow
    /\ call.acct.margin_level = NoneVal
    /\ ~call.ok

\* the amount a daily-loss breach puts on daily_losses
BreachAmount == Max(0, daily_start_balance - call.acct.balance)

\* C17 as stated: on every daily-loss breach check_risk_limits returns false
\* and increases daily_losses by exactly max(0, start balance - balance).
C17_Orig ==
    [][(Checked' /\ DailyLossBreach')
          => /\ ~call'.ok
             /\ daily_losses' = daily_losses + BreachAmount']_vars

\* C17: on a daily-loss breach that the position-count check does not
\* reject first, check_risk_limits returns false and increases daily_losses
\* by exactly max(0, start balance - balance).
C17_BreachAddsLoss ==
    [][(Checked' /\ DailyLossBreach' /\ ~PositionCountReached')
          => /\ ~call'.ok
             /\ daily_losses' = daily_losses + BreachAmount']_vars

\* start balance 10000, balance 9400: rejected, and 600 is on daily_losses
C17_Witness ==
    /\ Checked
    /\ daily_start_balance = 10000
    /\ call.acct.balance = 9400
    /\ call.acct.open_positions = NoneVal
    /\ ~call.ok
    /\ daily_losses = 600

\* the call went through the daily-loss branch
DailyLossBranch == DailyLossBreach /\ ~PositionCountReached

\* C18: check_risk_limits changes nothing but an unset start balance, which
\* it seeds with the balance, and daily_losses on the daily-loss branch:
\* on every other path daily_losses is unchanged, and the peak map and a
\* start balance that is already set are never changed.
C18_CheckRiskLimitsFrame ==
    [][Checked'
          => /\ position_peaks' = position_peaks
             /\ daily_start_balance # NoneVal
                    => daily_start_balance' = daily_start_balance
             /\ daily_start_balance = NoneVal
                    => daily_start_balance' \in {NoneVal, call'.acct.balance}
             /\ (call'.ok \/ ~DailyLossBranch')
                    => daily_losses' = daily_losses
             /\ UNCHANGED loopVars]_vars

\* a rejection through the margin-level branch, with a start balance other
\* than the balance, losses on the books and a peak recorded
C18_Witness ==
    /\ Checked
    /\ ~call.ok
    /\ call.acct.margin_level = 150
    /\ call.acct.margin > 0
    /\ call.acct.open_positions = NoneVal
    /\ daily_start_balance = 9500
    /\ call.acct.balance = 9400
    /\ daily_losses > 0
    /\ \E t \in Tickets : position_peaks[t] # NoneVal

\* the latest call was should_close_position on a well-formed position
Evaluated ==
    /\ call.fn = "should_close_position"
    /\ call.position.price_open # 0

EvaluatedPnl == PnlPct(call.position, call.current_price)

\* C19: across should_close_position calls the recorded peak of a ticket
\* never decreases while its entry exists: an evaluation of the ticket
\* leaves it at max(previous peak, current PnL%) or deletes the entry, and an
\* evaluation of anything else leaves it alone.
C19_PeakNeverDecreases ==
    [][(call'.fn = "should_close_position")
          => \A t \in Tickets :
                position_peaks[t] # NoneVal
                   => IF Evaluated' /\ call'.position.ticket = t
                      THEN \/ position_peaks'[t] = NoneVal
                           \/ position_peaks'[t]
                                  = Max(position_peaks[t], EvaluatedPnl')
                      ELSE position_peaks'[t] = position_peaks[t]]_vars

\* a ticket with a recorded peak of 3% was evaluated at a smaller profit
\* above half the peak, and the peak is still 3%
C19_Witness ==
    /\ Evaluated
    /\ call.position.ticket = 1
    /\ call.current_price = 11187
    /\ ~call.ok
    /\ position_peaks[1] = (3 * PnlDen) \div 100

\* the latest call returned true through the trailing stop
TrailingStopFired ==
    /\ Evaluated
    /\ call.ok
    /\ ~HardStopHit(call.position, call.current_price)

\* C20: a position with a recorded peak p that is evaluated at a PnL% of at
\* most p/2, above the hard stop, makes should_close_position return true
\* and delete the peak entry; the same position evaluated again at the same
\* price right afterwards gives false.
C20_TrailingStopFiresOnce ==
    /\ [][(/\ Evaluated'
           /\ call'.position.ticket # NoneVal
           /\ position_peaks[call'.position.ticket] # NoneVal
           /\ ~HardStopHit(call'.position, call'.current_price)
           /\ EvaluatedPnl' * 100
                  <= position_peaks[call'.position.ticket] * trailing_share_pct)
              => /\ call'.ok
                 /\ position_peaks'[call'.position.ticket] = NoneVal]_vars
    /\ [][(/\ TrailingStopFired
           /\ Evaluated'
           /\ call'.position = call.position
           /\ call'.current_price = call.current_price)
              => ~call'.ok]_vars

\* long at 1.1000 evaluated at 1.1154 (PnL 1.4%): closed by the trailing
\* stop, and the ticket has no peak entry any more
C20_Witness ==
    /\ TrailingStopFired
    /\ call.position.ticket = 1
    /\ call.position.price_open = 11000
    /\ call.current_price = 11154
    /\ position_peaks[1] = NoneVal

\* the signed PnL% of the evaluated position is at or below
\* -max_risk_per_trade
EvaluatedAtHardStop ==
    /\ Evaluated
    /\ IF call.position.type = "BUY"
       THEN (call.current_price - call.position.price_open) * 100
                <= (0 - max_risk_per_trade_pct) * call.position.price_open
       ELSE (call.position.price_open - call.current_price) * 100
                <= (0 - max_risk_per_trade_pct) * call.position.price_open

\* max(0, volume * (entry - current)) of the evaluated position
EvaluatedLoss ==
    Max(0, (call.position.volume
               * (call.position.price_open - call.current_price)) \div 10000)

\* C21: whenever the signed PnL% of a long or short position is at or below
\* -max_risk_per_trade, should_close_position returns true and adds
\* max(0, volume * (entry - current)) to daily_losses, whether or not the
\* position has a ticket or a recorded peak.
C21_HardStopClosesAndAddsLoss ==
    [][EvaluatedAtHardStop'
          => /\ call'.ok
             /\ daily_losses' = daily_losses + EvaluatedLoss']_vars

\* a long position without ticket evaluated 2% under its entry: closed, and
\* 220 is on daily_losses
C21_Witness ==
    /\ EvaluatedAtHardStop
    /\ call.position.ticket = NoneVal
    /\ call.position.type = "BUY"
    /\ call.current_price = 10780
    /\ call.ok
    /\ daily_losses = 220

\* C22: after should_close_position returned true for a position, by the
\* hard stop or by the trailing trigger, the peak map holds no entry for it.
C22_Orig ==
    (Evaluated /\ call.ok /\ call.position.ticket # NoneVal)
        => position_peaks[call.position.ticket] = NoneVal

\* the latest call was clear_position_peak; call.position.ticket is its
\* argument
Cleared == call.fn = "clear_position_peak"

\* C23: after clear_position_peak(t) ticket t has no peak entry, the peaks
\* of the other tickets and daily_start_balance and daily_losses are
\* unchanged; for a ticket without entry nothing changes at all.
C23_ClearPositionPeakFrame ==
    [][Cleared'
          => LET t == call'.position.ticket
             IN  /\ position_peaks'[t] = NoneVal
                 /\ \A u \in Tickets \ {t} : position_peaks'[u] = position_peaks[u]
                 /\ UNCHANGED riskVars
                 /\ UNCHANGED loopVars
                 /\ position_peaks[t] = NoneVal
                        => position_peaks' = position_peaks]_vars

\* ticket 1 was cleared while ticket 2 keeps its peak and losses are on the
\* books
C23_Witness ==
    /\ Cleared
    /\ call.position.ticket = 1
    /\ position_peaks[1] = NoneVal
    /\ position_peaks[2] # NoneVal
    /\ daily_losses > 0
    /\ daily_start_balance # NoneVal

\* the rows of table trades with order id id
RowsOf(id) == {r \in ledger : r.order_id = id}

\* the latest call was log_trade; call.trade is its argument
Logged == call.fn = "log_trade"

\* C24 as stated: after any log_trade call the ledger holds exactly one
\* record for its order_id; a call with an order_id that is already there
\* leaves the ledger unchanged, returns false and raises nothing.
C24_Orig ==
    [][Logged'
          => /\ Cardinality({r \in ledger' : r.order_id = call'.trade.order_id}) = 1
             /\ call'.trade.order_id \in LedgerIds
                    => /\ ledger' = ledger
                       /\ ~call'.ok
                       /\ call'.outcome # "raised"]_vars

\* C24: the ledger never holds two records with one order_id.  A log_trade
\* call whose statement the store executes inserts the record and returns
\* true when the order_id is new, and leaves the ledger unchanged and returns
\* false when the order_id is already there; a call on a failing or missing
\* connection stores nothing and does not return true.
C24_LogTradeIdempotent ==
    /\ [](\A r1, r2 \in ledger : r1.order_id = r2.order_id => r1 = r2)
    /\ [][Logged'
             => LET id == call'.trade.order_id
                IN  IF call'.outcome = "executed"
                    THEN IF id \in LedgerIds
                         THEN ledger' = ledger /\ ~call'.ok
                         ELSE /\ ledger' = ledger \cup
                                     {[order_id |-> id,
                                       open_price |-> call'.trade.price,
                                       status |-> "OPEN",
                                       close_price |-> NoneVal,
                                       profit |-> NoneVal,
                                       close_time |-> NoneVal]}
                              /\ call'.ok
                    ELSE ledger' = ledger /\ ~call'.ok]_vars

\* a second insert of order 1 with another price was executed and refused:
\* the record of order 1 still has the price of the first insert
C24_Witness ==
    /\ Logged
    /\ call.outcome = "executed"
    /\ ~call.ok
    /\ call.trade.order_id = 1
    /\ \E r \in ledger : r.order_id = 1 /\ r.open_price # call.trade.price
    /\ Cardinality(RowsOf(1)) = 1

\* the latest call was update_trade; call.close holds its arguments
Updated == call.fn = "update_trade"

\* row r after the close data c were written to it
ClosedRow(r, c) ==
    [order_id |-> r.order_id, open_price |-> r.open_price, status |-> "CLOSED",
     close_price |-> c.close_price, profit |-> c.profit, close_time |-> c.close_time]

\* the ledger after the close data c were written to the record of c.order_id
LedgerClosed(c) ==
    {r \in ledger : r.order_id # c.order_id}
    \cup {ClosedRow(r, c) : r \in {x \in ledger : x.order_id = c.order_id}}

\* C25 as stated: update_trade for an order_id without record changes
\* nothing, returns false and raises nothing; for a known order_id it sets
\* close_price, profit, close_time and status CLOSED on that record only.
C25_Orig ==
    [][Updated'
          => IF call'.close.order_id \in LedgerIds
             THEN ledger' = LedgerClosed(call'.close)
             ELSE /\ ledger' = ledger
                  /\ ~call'.ok
                  /\ call'.outcome # "raised"]_vars

\* C25: an update_trade call whose statement the store executes changes
\* nothing and returns false for an order_id without record, and for a known
\* order_id sets close_price, profit, close_time and status CLOSED on that
\* record only and returns true; a call on a failing or missing connection
\* changes nothing and does not return true.
C25_UpdateTradeKnownOnly ==
    [][Updated'
          => IF call'.outcome = "executed"
             THEN IF call'.close.order_id \in LedgerIds
                  THEN ledger' = LedgerClosed(call'.close) /\ call'.ok
                  ELSE ledger' = ledger /\ ~call'.ok
             ELSE ledger' = ledger /\ ~call'.ok]_vars

\* order 1 was closed while the record of order 2 is still OPEN
C25_Witness ==
    /\ Updated
    /\ call.outcome = "executed"
    /\ call.ok
    /\ call.close.order_id = 1
    /\ \E r \in ledger :
          /\ r.order_id = 1
          /\ r.status = "CLOSED"
          /\ r.close_price = call.close.close_price
          /\ r.profit = call.close.profit
    /\ \E r \in ledger : r.order_id = 2 /\ r.status = "OPEN"

\* a connect of start() has failed
ConnectFailed ==
    \E i \in Idx("mt5_connect") \cup Idx("db_connect") : ~log[i].ok

C27_Orig == ConnectFailed => Idx("send_alert") # {}

\* a snapshot fetch of this iteration returned None
FetchFailed ==
    \E i \in Idx("get_market_data") \cup Idx("get_account_info") : ~log[i].ok

\* the statements of run up to the fetch of the account snapshot
FetchPcs == {"market_check", "throttle_check", "fetch_market", "fetch_account"}

\* C28: an iteration whose market or account snapshot is absent ends right
\* there with the 60s wait and goes back to the start of the loop: it has no
\* day rollover, risk check, signal request, order, metric or alert, and up
\* to the retry trades_today, current_trading_day and daily_start_equity
\* (and the RiskManager's daily state) are what they were.
C28_MissingSnapshotIsRetried ==
    /\ [](FetchFailed
            => /\ pc = "wait"
               /\ log[Len(log)] = Sleep(SLEEP_RETRY)
               /\ \A i \in DOMAIN log :
                     log[i].op \in {"is_market_open", "get_market_data",
                                    "get_account_info", "sleep"}
               /\ Cardinality(Idx("sleep")) = 1)
    /\ [][(pc \in FetchPcs \/ FetchFailed)
             => /\ UNCHANGED <<dayVars, riskVars, ledger>>
                /\ FetchFailed => pc' \in {"market_check", "stop"}]_vars

\* the account snapshot was absent on a new date with a trade on the
\* counter: the iteration waits, the rollover has not happened
C28_Witness ==
    /\ pc = "wait"
    /\ \E i \in Idx("get_account_info") : ~log[i].ok
    /\ today # current_trading_day
    /\ trades_today > 0
    /\ daily_start_equity # NoneVal

\* C29: trades_today is always between 0 and max_trades_per_day; an
\* iteration that starts with trades_today >= max_trades_per_day submits no
\* order (it ends at the throttle check); an iteration submits at most one
\* order.
C29_ThrottleBoundsTrades ==
    /\ [](/\ 0 <= trades_today
          /\ trades_today <= max_trades_per_day
          /\ Cardinality(Idx("place_order")) <= 1
          /\ Idx("place_order") # {} => TradesAtDecision < max_trades_per_day)
    /\ [][(pc = "throttle_check" /\ trades_today >= max_trades_per_day)
             => /\ pc' \in {"wait", "stop"}
                /\ log' \in {<<>>, Append(log, Sleep(SLEEP_THROTTLE))}]_vars
    /\ [][(pc \in {"market_check", "throttle_check"})
             => UNCHANGED trades_today]_vars

\* the cap is reached and the iteration ended at the throttle check
C29_Witness ==
    /\ trades_today = max_trades_per_day
    /\ pc = "wait"
    /\ log = << Ev("is_market_open", NoAccount, NoneVal, TRUE, ""),
                Sleep(SLEEP_THROTTLE) >>

\* the snapshot of this iteration, as get_account_info returned it
SnapshotEquity ==
    log[CHOOSE i \in Idx("get_account_info") : TRUE].acct.equity

\* this iteration performed the day rollover
RolledOver == \E i \in Idx("day_rollover") : log[i].ok

\* the statements of run after the day rollover
PastRolloverPcs == {"risk_gate", "decide", "act", "close_all", "execute_trade",
                    "post_trade", "report"}

\* C30: every published DailyPnL is the equity of the iteration's snapshot
\* minus daily_start_equity, which is the equity of the first snapshot that
\* went through the day rollover on the current date: the rollover stores
\* the equity of its snapshot when the date is new (or nothing is stored
\* yet) and nothing else changes it; in the iteration of the rollover the
\* published DailyPnL is 0.
C30_DailyPnlFromStartOfDayEquity ==
    /\ [](\A m \in Idx("publish_metric") :
             log[m].s = "DailyPnL"
                => /\ log[m].n = SnapshotEquity - daily_start_equity
                   /\ current_trading_day = today
                   /\ RolledOver => log[m].n = 0)
    /\ [](pc \in PastRolloverPcs
             => current_trading_day = today /\ daily_start_equity # NoneVal)
    /\ [][IF pc = "day_rollover" /\ pc' = "risk_gate"
             /\ (today # current_trading_day \/ daily_start_equity = NoneVal)
          THEN daily_start_equity' = account_info.equity
          ELSE daily_start_equity' = daily_start_equity]_vars

\* the rollover iteration of day 2 on an equity of 9400 published DailyPnL 0
C30_Witness ==
    /\ pc = "wait"
    /\ RolledOver
    /\ today = 2
    /\ SnapshotEquity = 9400
    /\ \E m \in Idx("publish_metric") : log[m].s = "DailyPnL" /\ log[m].n = 0

\* the PnL% of the evaluated position is above the 0.02 profit threshold
EvaluatedAboveThreshold == EvaluatedPnl * 100 > profit_threshold_pct * PnlDen

\* C34: a ticket gets a peak entry only in an evaluation of that ticket
\* whose PnL% is above the 0.02 profit threshold, and the entry then holds
\* that PnL%; every peak in the map is above 0.02; an evaluation at a PnL% of
\* at most 0.02 of a ticket without entry leaves it without entry.
C34_TrackingStartsAboveThreshold ==
    /\ [](\A t \in Tickets :
             position_peaks[t] # NoneVal
                => position_peaks[t] * 100 > profit_threshold_pct * PnlDen)
    /\ [][\A t \in Tickets :
             (position_peaks[t] = NoneVal /\ position_peaks'[t] # NoneVal)
                => /\ Evaluated'
                   /\ call'.position.ticket = t
                   /\ EvaluatedAboveThreshold'
                   /\ position_peaks'[t] = EvaluatedPnl']_vars
    /\ [][(/\ Evaluated'
           /\ call'.position.ticket # NoneVal
           /\ position_peaks[call'.position.ticket] = NoneVal
           /\ ~EvaluatedAboveThreshold')
             => position_peaks'[call'.position.ticket] = NoneVal]_vars

\* ticket 2, short at 1.0000, was evaluated at 0.9700 and is tracked with a
\* peak of 3%, while ticket 1, last seen below the threshold, is not
C34_Witness ==
    /\ Evaluated
    /\ call.position.ticket = 2
    /\ call.current_price = 9700
    /\ position_peaks[2] = (3 * PnlDen) \div 100
    /\ position_peaks[1] = NoneVal
    /\ ~call.ok

\* C38: an evaluation with a PnL% above 0.02 and not below the recorded
\* peak (or without recorded peak) returns false, and leaves a position that
\* has a ticket tracked with that PnL% as its peak.
C38_NewPeakNeverTriggers ==
    [][(/\ Evaluated'
        /\ EvaluatedAboveThreshold'
        /\ call'.position.ticket # NoneVal
              => \/ position_peaks[call'.position.ticket] = NoneVal
                 \/ EvaluatedPnl' >= position_peaks[call'.position.ticket])
          => /\ ~call'.ok
             /\ call'.position.ticket # NoneVal
                   => position_peaks'[call'.position.ticket] = EvaluatedPnl']_vars

\* ticket 1 went from a peak of 3% to a peak of 6% without being closed
C38_Witness ==
    /\ Evaluated
    /\ call.position.ticket = 1
    /\ call.current_price = 11660
    /\ position_peaks[1] = (6 * PnlDen) \div 100
    /\ ~call.ok

\* the lowest balance the account of the model can have
LowestBalance ==
    CHOOSE b \in {a.balance : a \in FlatAccounts \cup MarginAccounts} :
        \A a \in FlatAccounts \cup MarginAccounts : b <= a.balance

\* C37: daily_losses counts each loss once: within a day it never exceeds
\* the start balance minus the lowest balance observed (the loop adds no
\* hard-stop losses).
C37_Orig ==
    (today = 1 /\ daily_start_balance # NoneVal)
        => daily_losses <= daily_start_balance - LowestBalance

\* the entries that the step appended to the log
Appended == SubSeq(log', Len(log) + 1, Len(log'))

\* events starts with one run of close_all_positions over the positions
\* listed: the call, exactly one close_position per listed position and none
\* for another, then the tally with attempted = succeeded + failed
IsCloseRun(events, listed) ==
    LET n == Cardinality(listed)
        attempts == 2..(n + 1)
    IN  /\ Len(events) >= n + 3
        /\ events[1].op = "close_all_positions"
        /\ events[1].n = n
        /\ \A k \in attempts :
              events[k].op = "close_position" /\ events[k].n \in listed
        /\ \A t \in listed :
              Cardinality({k \in attempts : events[k].n = t}) = 1
        /\ events[n + 2].op = "close_summary"
        /\ events[n + 2].s = "succeeded"
        /\ events[n + 2].n = Cardinality({k \in attempts : events[k].ok})
        /\ events[n + 3].op = "close_summary"
        /\ events[n + 3].s = "failed"
        /\ events[n + 3].n = Cardinality({k \in attempts : ~events[k].ok})
        /\ events[1].n = events[n + 2].n + events[n + 3].n

\* C31: close_all_positions, on CLOSE and in stop(), asks exactly once for
\* the close of every position listed as open, whatever the outcome of the
\* other closes, reports attempted = succeeded + failed, and returns
\* normally: the iteration goes on to REPORT, stop() to its end.
C31_CloseAllBestEffort ==
    /\ [][(pc = "close_all" /\ pc' # pc /\ ~interrupted')
             => /\ pc' = "report"
                /\ IsCloseRun(Appended, ListedPositions)
                /\ Len(Appended) = Cardinality(ListedPositions) + 3]_vars
    /\ [][(pc = "stop" /\ pc' # pc)
             => /\ pc' = "stopped"
                /\ IsCloseRun(Appended, ListedPositions)]_vars

\* C31 witness: on CLOSE with three positions open, the close of the first
\* failed and the two others were still attempted, one of them with success
C31_Witness ==
    /\ pc = "report"
    /\ \E a \in Idx("close_all_positions") :
          /\ log[a].n = 3
          /\ log[a + 1] = Ev("close_position", NoAccount, 1, FALSE, "")
          /\ log[a + 2] = Ev("close_position", NoAccount, 2, TRUE, "")
          /\ log[a + 3] = Ev("close_position", NoAccount, 3, FALSE, "")
          /\ log[a + 4].n = 1
          /\ log[a + 5].n = 2
    /\ OpenTickets = {1, 3}

\* the iteration got the signal HOLD or CLOSE
Idle == signal \in {"HOLD", "CLOSE"}

\* the venue calls of close_all_positions
CloseOps == {"close_all_positions", "close_position", "close_summary"}

\* C32: an iteration whose signal is HOLD asks the venue for no order and no
\* close; one whose signal is CLOSE calls close_all_positions once and places
\* no order; in both, trades_today and the ledger stay as they are, log_trade
\* and record_trade are not called, and the iteration ends with the metrics
\* and the 60s wait.
C32_HoldAndCloseKeepBookkeeping ==
    /\ [](Idle =>
            \E d \in Idx("get_trading_signal") :
               /\ log[d].s = signal
               /\ trades_today = log[d].n
               /\ \A op \in {"place_order", "calculate_position_size",
                              "log_trade", "record_trade"} : Idx(op) = {}
               /\ signal = "HOLD" => \A op \in CloseOps : Idx(op) = {}
               /\ signal = "CLOSE" =>
                     /\ Cardinality(Idx("close_all_positions")) <= 1
                     /\ pc \in {"report", "wait"} => Idx("close_all_positions") = {d + 1}
               /\ pc \in {"close_all", "report", "wait"}
               /\ pc = "wait" =>
                     /\ IsReportAndWait(SubSeq(log, Len(log) - 4, Len(log)))
                     /\ \A k \in (d + 1)..(Len(log) - 5) : log[k].op \in CloseOps
                     /\ log[Len(log) - 2].n = trades_today)
    /\ [][(Idle \/ Idle') => (ledger' = ledger /\ trades_today' = trades_today)]_vars
    /\ [][(Idle /\ pc = "report" /\ ~interrupted') => pc' \in {"report", "wait"}]_vars
    /\ [][(signal = "HOLD" \/ signal' = "HOLD") => UNCHANGED venueVars]_vars

\* C32 witness: a CLOSE iteration that closed the one open position has
\* reached its 60s wait, with the trade of the day still counted and its
\* record still in the ledger
C32_Witness ==
    /\ signal = "CLOSE"
    /\ pc = "wait"
    /\ trades_today = 1
    /\ Cardinality(ledger) = 1
    /\ OpenTickets = {}
    /\ \E c \in Idx("close_position") : log[c].ok

\* a HOLD iteration has reached its 60s wait with a position open
C32_WitnessHold ==
    /\ signal = "HOLD"
    /\ pc = "wait"
    /\ OpenTickets # {}

\* the wait that the policy of run assigns to the way the iteration went
ExpectedWait ==
    IF ~log[1].ok THEN SLEEP_MARKET_CLOSED
    ELSE IF Len(log) = 2 THEN SLEEP_THROTTLE
    ELSE IF \E f \in Idx("get_market_data") \cup Idx("get_account_info") : ~log[f].ok
    THEN SLEEP_RETRY
    ELSE IF \E g \in Idx("check_risk_limits") : ~log[g].ok THEN SLEEP_RISK
    ELSE IF pc = "except_wait" THEN SLEEP_ERROR
    ELSE SLEEP_ITERATION

\* C33: the loop comes back to MARKET_CHECK only out of a wait, each
\* iteration waits exactly once, as its last step, and the wait lasts 300s
\* for a closed market, 3600s at the trade cap, 60s for a missing snapshot,
\* 300s for a failed risk gate, 60s after a caught exception and 60s after a
\* completed iteration.
C33_OneWaitPerIteration ==
    /\ [](IterationEnded =>
            /\ Cardinality(Idx("sleep")) = 1
            /\ log[Len(log)] = Sleep(ExpectedWait)
            /\ log[1].op = "is_market_open"
            /\ Len(log) = 2 /\ log[1].ok
                  => ThrottleReached(trades_today, max_trades_per_day)
            /\ pc = "wait" =>
                  \/ Idx("publish_metric") # {}
                  \/ ExpectedWait \in {SLEEP_MARKET_CLOSED, SLEEP_THROTTLE,
                                       SLEEP_RETRY, SLEEP_RISK})
    /\ []((pc \in (TryPcs \cup HandlerPcs) /\ ~IterationEnded) => Idx("sleep") = {})
    /\ [][(pc' = "market_check" /\ log' # log)
             => pc \in {"start", "wait", "except_wait"}]_vars

\* C33 witness: the loop waits 3600s at the trade cap
C33_Witness ==
    /\ pc = "wait"
    /\ trades_today = max_trades_per_day
    /\ log[Len(log)] = Sleep(SLEEP_THROTTLE)
    /\ Cardinality(Idx("sleep")) = 1

\* record r holds no close data
NoCloseFields(r) ==
    r.close_price = NoneVal /\ r.profit = NoneVal /\ r.close_time = NoneVal

\* C35: every record is OPEN or CLOSED and an OPEN record holds no close
\* data; a record appears only through log_trade, as an OPEN record of the
\* logged order; a record never disappears, and it changes only in an
\* update_trade call for its order_id, which leaves it CLOSED with the close
\* data of the call; log_trade leaves every existing record as it is.
C35_TradeRecordLifecycle ==
    /\ [](\A r \in ledger :
             /\ r.status \in {"OPEN", "CLOSED"}
             /\ r.status = "OPEN" => NoCloseFields(r))
    /\ [][\A r \in ledger' :
             r.order_id \notin LedgerIds
                => /\ Logged'
                   /\ r.order_id = call'.trade.order_id
                   /\ r.open_price = call'.trade.price
                   /\ r.status = "OPEN"
                   /\ NoCloseFields(r)]_vars
    /\ [][\A r \in ledger :
             \/ r \in ledger'
             \/ /\ Updated'
                /\ call'.close.order_id = r.order_id
                /\ ClosedRow(r, call'.close) \in ledger'
                /\ \A x \in ledger' : x.order_id = r.order_id
                                         => x = ClosedRow(r, call'.close)]_vars
    /\ [][Logged' => \A r \in ledger : r \in ledger']_vars

\* C35 witness: log_trade was executed for order 1, whose record is CLOSED
\* and stayed so, with the open price it was created with
C35_Witness ==
    /\ Logged
    /\ call.outcome = "executed"
    /\ call.trade.order_id = 1
    /\ \E r \in ledger :
          /\ r.order_id = 1
          /\ r.status = "CLOSED"
          /\ r.close_price = 10200
          /\ r.open_price # call.trade.price
    /\ \E r \in ledger : r.order_id = 2 /\ r.status = "OPEN"

\* C39: every order handed to place_order carries a stop_loss, at the price
\* get_stop_loss_price gives for the current price, the side of the order
\* and the stop distance the order was sized with.
C39_Orig ==
    \A o \in Idx("place_order") :
        /\ log[o].stop_loss # NoneVal
        /\ log[o].stop_loss =
              GetStopLossPrice(price, log[o].s, signal_stop_loss_pips)

\* a stop was requested: by KeyboardInterrupt or by a call of stop()
StopRequested == interrupted \/ call.fn = "stop"

\* a shutdown sequence has begun to close the positions
ShutdownBegun == call.fn = "stop" \/ pc = "stopped"

\* C36: once a stop was requested the loop starts no new iteration, and
\* once a shutdown sequence has begun to close the positions no order is
\* handed to the venue.
C36_Orig ==
    /\ [][(StopRequested /\ pc = "market_check")
             => pc' \in {"market_check", "stop"}]_vars
    /\ [][ShutdownBegun
             => \A k \in DOMAIN Appended : Appended[k].op # "place_order"]_vars

====
